---------------------------- MODULE Spec2Model ----------------------------
(***************************************************************************)
(* Habit tracker (src/App.tsx): the domain reducer, the Log Store hook     *)
(* (useGoogleSheets over useLocalStorage) and the App handlers that tie    *)
(* them together.                                                          *)
(*                                                                         *)
(* React is modelled by what the source relies on: a handler reads the     *)
(* values its closure captured at the last render (rendered), a dispatch   *)
(* or a state setter takes effect on the current value, and Render takes a *)
(* new snapshot and runs the effects of App.                               *)
(***************************************************************************)
EXTENDS Integers, Sequences, FiniteSets, TLC

\* ------------------------------------------------------------------ bounds

\* Longest dailyLogs / moodLogs collection drawn as an input of the reducer.
MaxLogs == 3
MaxMoods == 3
\* Longest dailyLogs collection a run of reducer actions starts from.
MaxBase == 1
\* Longest collection found in local storage when the application starts.
MaxStored == 2
MaxStoredMoods == 1
\* ToggleHabit actions and other actions in one run of the reducer.
MaxToggles == 3
MaxOther == 1
\* User intents issued in one run of the application, and how many of them
\* may save a configuration.
MaxIntents == 3
MaxSaves == 2
\* Calls of a useLocalStorage setter in one run of the Log Store.
MaxWrites == 2
\* Views: longest dailyLogs collection drawn record by record, days back from
\* today drawn habit by habit, and navigations in one run.
MaxViewLogs == 3
MaxDaysBack == 3
MaxNavs == 2
MaxBusyIntents == 2

\* ------------------------------------------------------------------ values

\* The absent value (null / undefined).
NULL == "null"

\* toISODate(new Date()): the day the session runs on, as a day number.
Today == 2
Dates == {Today - 1, Today}

\* Ids of the habit catalog (the first entries of defaultHabits).
HabitIds == {"h1", "h2"}
defaultHabits == << [id |-> "h1", active |-> TRUE], [id |-> "h2", active |-> TRUE] >>

\* Slider values (1..10 in the source) and the default of a missing MoodLog.
DefaultScore == 5
Scores == {DefaultScore, 7}

Views == {"today", "calendar", "stats", "settings"}
\* currentMonth, as an offset in months from the month of construction.
Months == {-1, 0, 1}
Errors == {NULL, "Error syncing"}

DailyLogs == [date : Dates, habitId : HabitIds, completed : BOOLEAN]
MoodLogs == [date : Dates, moodScore : Scores, motivationScore : Scores]

\* Sequences over S of length at most n.
SeqUpTo(S, n) == UNION {[1..k -> S] : k \in 0..n}

\* ----------------------------------------------------------- array helpers

\* Array.prototype.findIndex over the outcomes of the test on each element,
\* 1-based; 0 when nothing matches (-1 in JS). Array.prototype.find is the
\* element at that index. Array.prototype.filter is SelectSeq.
FindIndex(hits) ==
  IF \E i \in DOMAIN hits : hits[i]
  THEN CHOOSE i \in DOMAIN hits : hits[i] /\ \A j \in 1..(i - 1) : ~hits[j]
  ELSE 0

\* Array.prototype.some, over the outcomes of the test on each element.
Some(hits) == \E i \in DOMAIN hits : hits[i]

SameKey(l, date, habitId) == l.date = date /\ l.habitId = habitId

\* ----------------------------------------------------------------- reducer

initialState ==
  [habits |-> << >>, dailyLogs |-> << >>, moodLogs |-> << >>,
   currentView |-> "today", currentMonth |-> 0,
   isLoading |-> TRUE, isSyncing |-> FALSE, error |-> NULL]

\* Mutant of SetDataCase: the error is cleared with the loading flag.
SetDataClearsError(state_, payload) ==
  [state_ EXCEPT !.habits = payload.habits,
                 !.dailyLogs = payload.dailyLogs,
                 !.moodLogs = payload.moodLogs,
                 !.isLoading = FALSE,
                 !.error = NULL]

\* Mutant of ToggleHabitCase: the first record of the key is overwritten in
\* place (search and mutate) instead of filter-then-push.
ToggleHabitInPlace(state_, payload) ==
  LET Hit(l) == SameKey(l, payload.date, payload.habitId)
      idx == FindIndex([at \in DOMAIN state_.dailyLogs |-> Hit(state_.dailyLogs[at])])
      log(c) == [date |-> payload.date, habitId |-> payload.habitId, completed |-> c]
  IN [state_ EXCEPT !.dailyLogs =
        IF idx > 0 THEN [@ EXCEPT ![idx] = log(~@.completed)]
        ELSE Append(@, log(TRUE))]

\* Mutant of ToggleHabitCase: a key without a record is stored as not completed.
ToggleHabitFirstFalse(state_, payload) ==
  LET Hit(l) == SameKey(l, payload.date, payload.habitId)
      Miss(l) == ~SameKey(l, payload.date, payload.habitId)
      idx == FindIndex([at \in DOMAIN state_.dailyLogs |-> Hit(state_.dailyLogs[at])])
      completed == IF idx > 0 THEN ~state_.dailyLogs[idx].completed ELSE FALSE
  IN [state_ EXCEPT !.dailyLogs =
        Append(SelectSeq(@, Miss),
               [date |-> payload.date, habitId |-> payload.habitId, completed |-> completed])]

\* case 'TOGGLE_HABIT'
ToggleHabitCase(state_, payload) ==
  LET date == payload.date
      habitId == payload.habitId
      Hit(l) == SameKey(l, date, habitId)
      Miss(l) == ~SameKey(l, date, habitId)
      idx == FindIndex([at \in DOMAIN state_.dailyLogs |-> Hit(state_.dailyLogs[at])])
      completed == IF idx > 0 THEN ~state_.dailyLogs[idx].completed ELSE TRUE
      newLogs == Append(SelectSeq(state_.dailyLogs, Miss),
                        [date |-> date, habitId |-> habitId, completed |-> completed])
  IN [state_ EXCEPT !.dailyLogs = newLogs]

\* Mutant of UpdateMoodCase: the first record of the date is overwritten in
\* place instead of filter-then-push.
UpdateMoodInPlace(state_, payload) ==
  LET Hit(l) == l.date = payload.date
      idx == FindIndex([at \in DOMAIN state_.moodLogs |-> Hit(state_.moodLogs[at])])
  IN [state_ EXCEPT !.moodLogs =
        IF idx > 0 THEN [@ EXCEPT ![idx] = payload] ELSE Append(@, payload)]

\* case 'UPDATE_MOOD'
UpdateMoodCase(state_, payload) ==
  LET Other(l) == l.date # payload.date
      newMoods == Append(SelectSeq(state_.moodLogs, Other), payload)
  IN [state_ EXCEPT !.moodLogs = newMoods]

\* case 'SET_DATA': { ...state, ...action.payload, isLoading: false }
SetDataCase(state_, payload) ==
  [state_ EXCEPT !.habits = payload.habits,
                 !.dailyLogs = payload.dailyLogs,
                 !.moodLogs = payload.moodLogs,
                 !.isLoading = FALSE]

reducer(state_, action) ==
  CASE action.type = "SET_LOADING" -> [state_ EXCEPT !.isLoading = action.payload]
    [] action.type = "SET_SYNCING" -> [state_ EXCEPT !.isSyncing = action.payload]
    [] action.type = "SET_ERROR" -> [state_ EXCEPT !.error = action.payload]
    [] action.type = "SET_DATA" -> SetDataCase(state_, action.payload)
    [] action.type = "SET_VIEW" -> [state_ EXCEPT !.currentView = action.payload]
    [] action.type = "SET_MONTH" -> [state_ EXCEPT !.currentMonth = action.payload]
    [] action.type = "TOGGLE_HABIT" -> ToggleHabitCase(state_, action.payload)
    [] action.type = "UPDATE_MOOD" -> UpdateMoodCase(state_, action.payload)
    [] OTHER -> state_

Action(type, payload) == [type |-> type, payload |-> payload]
NoAction == Action("none", NULL)

\* ------------------------------------------------------------------- state

VARIABLES
  state,            \* useReducer: the application state, every dispatch applied
  rendered,         \* what the closures of the last render captured
  config,           \* useLocalStorage('ht_config')
  localHabits,      \* useLocalStorage('ht_habits')
  localDailyLogs,   \* useLocalStorage('ht_dailyLogs')
  localMoodLogs,    \* useLocalStorage('ht_moodLogs')
  storage,          \* window.localStorage: the text stored under each key present
  isLoading,        \* useGoogleSheets: useState(false)
  isSyncing,        \* useGoogleSheets: useState(false)
  error,            \* useGoogleSheets: useState(null)
  refetchTimers,    \* setTimeout(() => refetch(), 500) not yet fired, oldest first
  loadingTimers,    \* setTimeout(() => setIsLoading(false), 500) not yet fired
  fetches,          \* configured fetchData calls awaiting the remote read, oldest first
  upserts,          \* configured updateDailyLog/updateMoodLog calls awaiting the remote write
  hist              \* history: what the run has done so far (read by the properties only)

vars == << state, rendered, config, localHabits, localDailyLogs, localMoodLogs, storage,
           isLoading, isSyncing, error, refetchTimers, loadingTimers, fetches,
           upserts, hist >>

hookVarsButRendered ==
  << config, localHabits, localDailyLogs, localMoodLogs, storage, isLoading, isSyncing,
     error, refetchTimers, loadingTimers, fetches, upserts >>

hookVars == << rendered, config, localHabits, localDailyLogs, localMoodLogs, storage,
               isLoading, isSyncing, error, refetchTimers, loadingTimers, fetches,
               upserts >>

\* const hasConfig = !!config.apiKey && !!config.spreadsheetId
hasConfig(config_) == config_.apiKey # "" /\ config_.spreadsheetId # ""

\* The closure values of a render of App over the given values.
Snapshot(state_, config_, habits_, dailyLogs_, moodLogs_, isLoading_) ==
  [state |-> state_, hasConfig |-> hasConfig(config_),
   localHabits |-> habits_, localDailyLogs |-> dailyLogs_,
   localMoodLogs |-> moodLogs_, isLoading |-> isLoading_]

emptyConfig == [spreadsheetId |-> "", apiKey |-> ""]
fullConfig == [spreadsheetId |-> "sheet-1", apiKey |-> "key-1"]

\* ------------------------------------------------------------ local storage

\* The four slots, in the order App mounts them (config, then the hook's three).
StorageKeys == << "ht_config", "ht_habits", "ht_dailyLogs", "ht_moodLogs" >>

\* initialValue of each useLocalStorage call.
initialValue(key) ==
  CASE key = "ht_config" -> emptyConfig
    [] key = "ht_habits" -> defaultHabits
    [] OTHER -> << >>

\* A storage without any key.
NoStorage == [k \in {} |-> ""]

\* JSON.stringify: the text of a value.
JSONStringify(value) == ToString(value)

\* window.localStorage.setItem(key, text)
SetItem(store, key, text) ==
  [k \in DOMAIN store \cup {key} |-> IF k = key THEN text ELSE store[k]]

\* The storage once each slot held the text of the given value.
StorageOf(config_, habits_, dailyLogs_, moodLogs_) ==
  SetItem(SetItem(SetItem(SetItem(NoStorage,
    "ht_config", JSONStringify(config_)),
    "ht_habits", JSONStringify(habits_)),
    "ht_dailyLogs", JSONStringify(dailyLogs_)),
    "ht_moodLogs", JSONStringify(moodLogs_))

\* The values a slot's text may stand for.
JsonValues(key) ==
  CASE key = "ht_config" -> [spreadsheetId : {"", "sheet-1"}, apiKey : {"", "key-1"}]
    [] key = "ht_habits" -> { << >>, defaultHabits }
    [] key = "ht_dailyLogs" ->
         { << >>,
           << [date |-> Today, habitId |-> "h1", completed |-> TRUE] >>,
           << [date |-> Today, habitId |-> "h1", completed |-> FALSE],
              [date |-> Today, habitId |-> "h1", completed |-> TRUE] >> }
    [] OTHER ->
         { << >>, << [date |-> Today, moodScore |-> 7, motivationScore |-> DefaultScore] >> }

\* JSON.parse of a slot's text: the value whose text it is, or a SyntaxError.
JSONParse(text, key) ==
  LET values == { v \in JsonValues(key) : JSONStringify(v) = text }
  IN IF values = {} THEN [ok |-> FALSE]
     ELSE [ok |-> TRUE, value |-> CHOOSE v \in values : TRUE]

\* The try block of the useLocalStorage initializer: getItem, then
\* item ? JSON.parse(item) : initialValue. readThrows: getItem throws.
TryLoad(store, key, readThrows) ==
  IF readThrows THEN [thrown |-> TRUE]
  ELSE IF key \notin DOMAIN store \/ store[key] = ""
       THEN [thrown |-> FALSE, value |-> initialValue(key)]
       ELSE LET parsed == JSONParse(store[key], key)
            IN IF parsed.ok THEN [thrown |-> FALSE, value |-> parsed.value]
               ELSE [thrown |-> TRUE]

\* Mutant of LoadValue: no catch block, the error of the try block reaches
\* the caller.
LoadValueNoCatch(store, key, readThrows) ==
  LET tried == TryLoad(store, key, readThrows)
  IN IF tried.thrown
     THEN [value |-> initialValue(key), raised |-> TRUE, logged |-> FALSE]
     ELSE [value |-> tried.value, raised |-> FALSE, logged |-> FALSE]

\* The useLocalStorage initializer: the try block, and the catch block that
\* logs and returns initialValue.
LoadValue(store, key, readThrows) ==
  LET tried == TryLoad(store, key, readThrows)
  IN IF tried.thrown
     THEN [value |-> initialValue(key), raised |-> FALSE, logged |-> TRUE]
     ELSE [value |-> tried.value, raised |-> FALSE, logged |-> FALSE]

\* Mutant of SetValue: the text is stored before the value is set, so a
\* failed write leaves the old value in memory.
SetValuePersistFirst(store, key, storedValue, value, writeThrows) ==
  IF writeThrows
  THEN [storedValue |-> storedValue, storage |-> store, raised |-> FALSE, logged |-> TRUE]
  ELSE [storedValue |-> value, storage |-> SetItem(store, key, JSONStringify(value)),
        raised |-> FALSE, logged |-> FALSE]

\* useLocalStorage.setValue: setStoredValue, then setItem; the catch block
\* logs. writeThrows: setItem throws.
SetValue(store, key, storedValue, value, writeThrows) ==
  IF writeThrows
  THEN [storedValue |-> value, storage |-> store, raised |-> FALSE, logged |-> TRUE]
  ELSE [storedValue |-> value, storage |-> SetItem(store, key, JSONStringify(value)),
        raised |-> FALSE, logged |-> FALSE]

\* The hook before anything was stored: every slot at its initial value.
HookInit ==
  /\ config = emptyConfig
  /\ localHabits = defaultHabits
  /\ localDailyLogs = << >>
  /\ localMoodLogs = << >>
  /\ isLoading = FALSE
  /\ isSyncing = FALSE
  /\ error = NULL
  /\ refetchTimers = << >>
  /\ loadingTimers = 0
  /\ fetches = << >>
  /\ upserts = 0
  /\ storage = NoStorage
  /\ rendered = Snapshot(initialState, emptyConfig, defaultHabits, << >>, << >>, FALSE)

\* ------------------------------------------- the reducer as a pure function

\* Two settings of the fields the log actions must not touch.
UiPresets ==
  { [currentView |-> "today", currentMonth |-> 0, isLoading |-> TRUE,
     isSyncing |-> FALSE, error |-> NULL],
    [currentView |-> "stats", currentMonth |-> 1, isLoading |-> FALSE,
     isSyncing |-> TRUE, error |-> "Error syncing"] }

\* A few collections, to go with every collection of the other kind.
LogSamples ==
  { << >>,
    << [date |-> Today, habitId |-> "h1", completed |-> TRUE],
       [date |-> Today - 1, habitId |-> "h2", completed |-> FALSE] >> }
MoodSamples ==
  { << >>,
    << [date |-> Today, moodScore |-> 7, motivationScore |-> DefaultScore],
       [date |-> Today - 1, moodScore |-> DefaultScore, motivationScore |-> 7] >> }

ReducerState(ui, dl, ml) ==
  [habits |-> IF ui.isLoading THEN << >> ELSE defaultHabits,
   dailyLogs |-> dl, moodLogs |-> ml,
   currentView |-> ui.currentView, currentMonth |-> ui.currentMonth,
   isLoading |-> ui.isLoading, isSyncing |-> ui.isSyncing, error |-> ui.error]

\* The states the reducer is applied to: every dailyLogs collection up to
\* MaxLogs records (duplicate keys included) and every moodLogs collection up
\* to MaxMoods records.
ReducerInputs ==
  { ReducerState(ui, dl, ml) :
      ui \in UiPresets, dl \in SeqUpTo(DailyLogs, MaxLogs), ml \in MoodSamples }
  \cup
  { ReducerState(ui, dl, ml) :
      ui \in UiPresets, dl \in LogSamples, ml \in SeqUpTo(MoodLogs, MaxMoods) }

\* hist of the reducer specifications: the state before the last action, the
\* action, and how many actions were applied.
ReducerHist(prev, act, n) == [prev |-> prev, act |-> act, n |-> n]

InitReducer ==
  /\ state \in ReducerInputs
  /\ hist = ReducerHist(state, NoAction, 0)
  /\ HookInit

\* dispatch(action) on the reducer alone.
Dispatch(action) ==
  /\ hist.n = 0
  /\ state' = reducer(state, action)
  /\ hist' = ReducerHist(state, action, 1)
  /\ UNCHANGED hookVars

SetLoading == \E b \in BOOLEAN : Dispatch(Action("SET_LOADING", b))
SetSyncing == \E b \in BOOLEAN : Dispatch(Action("SET_SYNCING", b))
SetError == \E e \in Errors : Dispatch(Action("SET_ERROR", e))
SetView == \E v \in Views : Dispatch(Action("SET_VIEW", v))
SetMonth == \E m \in Months : Dispatch(Action("SET_MONTH", m))
ToggleHabit ==
  \E d \in Dates, h \in HabitIds :
    Dispatch(Action("TOGGLE_HABIT", [date |-> d, habitId |-> h]))
UpdateMood == \E m \in MoodLogs : Dispatch(Action("UPDATE_MOOD", m))

SetData ==
  \E hs \in {<< >>, defaultHabits}, dl \in LogSamples, ml \in MoodSamples :
    Dispatch(Action("SET_DATA", [habits |-> hs, dailyLogs |-> dl, moodLogs |-> ml]))

\* An action of no known type reaches the default branch.
Unrecognised == Dispatch(Action("UNKNOWN", NULL))

NextReducer ==
  \/ SetLoading
  \/ SetSyncing
  \/ SetError
  \/ SetData
  \/ SetView
  \/ SetMonth
  \/ ToggleHabit
  \/ UpdateMood
  \/ Unrecognised

SpecReducer == InitReducer /\ [][NextReducer]_vars

\* Records of a dailyLogs collection with the key of the payload, and the rest.
WithKey(logs, payload) ==
  LET Hit(l) == SameKey(l, payload.date, payload.habitId) IN SelectSeq(logs, Hit)
WithoutKey(logs, payload) ==
  LET Miss(l) == ~SameKey(l, payload.date, payload.habitId) IN SelectSeq(logs, Miss)

\* Records of a moodLogs collection of the given date, and the rest.
OfDate(moods, date) == LET Hit(l) == l.date = date IN SelectSeq(moods, Hit)
NotOfDate(moods, date) == LET Miss(l) == l.date # date IN SelectSeq(moods, Miss)

\* C2: from any state, duplicates of the key included, one ToggleHabit leaves
\* exactly one record with the key, keeps every record of another key
\* unchanged and in the same relative order, and changes no other field.
C2_ToggleDeduplicates ==
  hist.act.type = "TOGGLE_HABIT" =>
    /\ Len(WithKey(state.dailyLogs, hist.act.payload)) = 1
    /\ WithoutKey(state.dailyLogs, hist.act.payload)
         = WithoutKey(hist.prev.dailyLogs, hist.act.payload)
    /\ [state EXCEPT !.dailyLogs = hist.prev.dailyLogs] = hist.prev

C2_Witness ==
  /\ hist.act.type = "TOGGLE_HABIT"
  /\ Len(WithKey(hist.prev.dailyLogs, hist.act.payload)) >= 2
  /\ Len(WithoutKey(hist.prev.dailyLogs, hist.act.payload)) >= 1
  /\ Len(state.dailyLogs) = 2

\* C6: from any state, several records of the date included, UpdateMood(record)
\* leaves exactly one record of record.date, equal to the record given, keeps
\* the records of other dates, and changes no other field.
C6_UpdateMoodReplaces ==
  hist.act.type = "UPDATE_MOOD" =>
    /\ OfDate(state.moodLogs, hist.act.payload.date) = << hist.act.payload >>
    /\ NotOfDate(state.moodLogs, hist.act.payload.date)
         = NotOfDate(hist.prev.moodLogs, hist.act.payload.date)
    /\ [state EXCEPT !.moodLogs = hist.prev.moodLogs] = hist.prev

C6_Witness ==
  /\ hist.act.type = "UPDATE_MOOD"
  /\ Len(OfDate(hist.prev.moodLogs, hist.act.payload.date)) >= 2
  /\ Len(NotOfDate(hist.prev.moodLogs, hist.act.payload.date)) >= 1
  /\ \A i \in 1..Len(hist.prev.moodLogs) : hist.prev.moodLogs[i] # hist.act.payload
  /\ Len(state.moodLogs) = 2

\* ------------------------------------------------ runs of reducer actions

Keys == Dates \X HabitIds
KeysOf(logs) == { << logs[i].date, logs[i].habitId >> : i \in 1..Len(logs) }

\* hist of a run: the keys that had a record at the start, the ToggleHabit
\* actions applied per key and in all, and the other actions applied.
InitToggles ==
  /\ \E dl \in SeqUpTo(DailyLogs, MaxBase) : state = [initialState EXCEPT !.dailyLogs = dl]
  /\ hist = [base |-> KeysOf(state.dailyLogs), toggles |-> [k \in Keys |-> 0],
             n |-> 0, others |-> 0]
  /\ HookInit

\* dispatch(action) in a run of at most MaxToggles ToggleHabit and MaxOther
\* other actions.
DispatchNext(action) ==
  /\ IF action.type = "TOGGLE_HABIT" THEN hist.n < MaxToggles ELSE hist.others < MaxOther
  /\ state' = reducer(state, action)
  /\ hist' =
       IF action.type = "TOGGLE_HABIT"
       THEN [hist EXCEPT !.n = @ + 1,
                         !.toggles[<< action.payload.date, action.payload.habitId >>] = @ + 1]
       ELSE [hist EXCEPT !.others = @ + 1]
  /\ UNCHANGED hookVars

NextToggleHabit ==
  \E d \in Dates, h \in HabitIds :
    DispatchNext(Action("TOGGLE_HABIT", [date |-> d, habitId |-> h]))
NextUpdateMood == \E m \in MoodLogs : DispatchNext(Action("UPDATE_MOOD", m))
NextSetLoading == \E b \in BOOLEAN : DispatchNext(Action("SET_LOADING", b))
NextSetSyncing == \E b \in BOOLEAN : DispatchNext(Action("SET_SYNCING", b))
NextSetError == \E e \in Errors : DispatchNext(Action("SET_ERROR", e))
NextSetView == \E v \in Views : DispatchNext(Action("SET_VIEW", v))
NextSetMonth == \E m \in Months : DispatchNext(Action("SET_MONTH", m))

NextToggles ==
  \/ NextToggleHabit
  \/ NextUpdateMood
  \/ NextSetLoading
  \/ NextSetSyncing
  \/ NextSetError
  \/ NextSetView
  \/ NextSetMonth

SpecToggles == InitToggles /\ [][NextToggles]_vars

KeyPayload(k) == [date |-> k[1], habitId |-> k[2]]

\* C1: for a key without a record at the start, after n >= 1 ToggleHabit actions
\* on it (interleaved with toggles of other keys, UpdateMood and flag, view and
\* month actions, no SetData) dailyLogs holds exactly one record with the key,
\* completed iff n is odd.
C1_ToggleParity ==
  \A k \in Keys :
    (k \notin hist.base /\ hist.toggles[k] >= 1) =>
      /\ Len(WithKey(state.dailyLogs, KeyPayload(k))) = 1
      /\ WithKey(state.dailyLogs, KeyPayload(k))[1].completed = (hist.toggles[k] % 2 = 1)

C1_Witness ==
  \E k \in Keys :
    /\ k \notin hist.base
    /\ hist.toggles[k] = 2
    /\ hist.n = 3
    /\ hist.others = 1
    /\ Len(state.dailyLogs) >= 2

\* ---------------------------------------------------------- the application

Configs == [spreadsheetId : {"", "sheet-1"}, apiKey : {"", "key-1"}]

\* What fetchData closes over (useCallback dependencies).
FetchClosure(r) ==
  [hasConfig |-> r.hasConfig, habits |-> r.localHabits,
   dailyLogs |-> r.localDailyLogs, moodLogs |-> r.localMoodLogs]

\* The object fetchData returns.
FetchResult(c) == [habits |-> c.habits, dailyLogs |-> c.dailyLogs, moodLogs |-> c.moodLogs]

\* data of the hook's return value in a render.
HookData(habits_, dailyLogs_, moodLogs_) ==
  [habits |-> habits_, dailyLogs |-> dailyLogs_, moodLogs |-> moodLogs_]

\* The two effects of App after a render over closure values r: SET_DATA, whose
\* dependency data is a new object in every render, then SET_LOADING when
\* isLoading differs from the previous render's (wasLoading).
RunEffects(state_, r, wasLoading) ==
  LET afterData ==
        reducer(state_, Action("SET_DATA",
                               HookData(r.localHabits, r.localDailyLogs, r.localMoodLogs)))
  IN IF r.isLoading # wasLoading
     THEN reducer(afterData, Action("SET_LOADING", r.isLoading))
     ELSE afterData

\* The application state once App is mounted over the stored values: the
\* effects of the first render have run (SET_DATA, SET_LOADING(false)).
MountedState(habits_, dailyLogs_, moodLogs_) ==
  reducer(reducer(initialState, Action("SET_DATA", HookData(habits_, dailyLogs_, moodLogs_))),
          Action("SET_LOADING", FALSE))

\* What local storage holds when the application starts: the result of the
\* useLocalStorage initializers.
StoredLogs == SeqUpTo(DailyLogs, MaxStored)
StoredMoods == SeqUpTo(MoodLogs, MaxStoredMoods)

NoUpsert == [kind |-> "none"]
\* No value given to setMood yet.
NoScore == {}
NoFetch == [path |-> "none"]

TodayKey(l, habitId) == SameKey(l, Today, habitId)

\* hist of the application: intents issued, toggleHabit intents per habit,
\* the habits with a record of today and whether a mood record of today was
\* stored at the start, the last values given to setMood, the last upsert,
\* and the last value returned by fetchData.
InitStored ==
  /\ config \in {emptyConfig, fullConfig}
  /\ localHabits = defaultHabits
  /\ \E dl \in StoredLogs, ml \in StoredMoods :
       /\ dl = << >> \/ ml = << >>
       /\ localDailyLogs = dl
       /\ localMoodLogs = ml
  /\ storage = StorageOf(config, localHabits, localDailyLogs, localMoodLogs)
  /\ isLoading = FALSE
  /\ isSyncing = FALSE
  /\ error = NULL
  /\ refetchTimers = << >>
  /\ loadingTimers = 0
  /\ fetches = << >>
  /\ upserts = 0
  /\ state = MountedState(localHabits, localDailyLogs, localMoodLogs)
  /\ rendered = Snapshot(state, config, localHabits, localDailyLogs, localMoodLogs, isLoading)
  /\ hist = [intents |-> 0, saves |-> 0,
             toggles |-> [h \in HabitIds |-> 0],
             base |-> { h \in HabitIds : \E i \in 1..Len(localDailyLogs) :
                                           TodayKey(localDailyLogs[i], h) },
             moodBase |-> \E i \in 1..Len(localMoodLogs) : localMoodLogs[i].date = Today,
             lastMood |-> NoScore, lastMotivation |-> NoScore,
             upsert |-> NoUpsert, fetch |-> NoFetch]

\* updateDailyLog, up to setLocalDailyLogs: the new collection.
UpsertedDailyLogs(logs, date, habitId, completed) ==
  LET Hit(l) == SameKey(l, date, habitId)
      existingIndex == FindIndex([at \in DOMAIN logs |-> Hit(logs[at])])
      log == [date |-> date, habitId |-> habitId, completed |-> completed]
  IN IF existingIndex > 0 THEN [logs EXCEPT ![existingIndex] = log] ELSE Append(logs, log)

\* updateMoodLog, up to setLocalMoodLogs: the new collection.
UpsertedMoodLogs(moods, date, moodScore, motivationScore) ==
  LET Hit(l) == l.date = date
      existingIndex == FindIndex([at \in DOMAIN moods |-> Hit(moods[at])])
      log == [date |-> date, moodScore |-> moodScore, motivationScore |-> motivationScore]
  IN IF existingIndex > 0 THEN [moods EXCEPT ![existingIndex] = log] ELSE Append(moods, log)

\* if (hasConfig) { setIsSyncing(true); await ...; setIsSyncing(false) }: the part
\* before the await, which runs in the caller's turn.
StartRemoteUpsert(closureHasConfig) ==
  IF closureHasConfig
  THEN isSyncing' = TRUE /\ upserts' = upserts + 1
  ELSE UNCHANGED << isSyncing, upserts >>

\* handleToggleHabit(habitId), with updateDailyLog up to its await.
HandleToggleHabit ==
  \E habitId \in HabitIds :
    /\ hist.intents < MaxIntents
    /\ \E i \in 1..Len(rendered.state.habits) : rendered.state.habits[i].id = habitId
    /\ LET Done(l) == TodayKey(l, habitId) /\ l.completed
           logs == rendered.state.dailyLogs
           isCompleted == Some([at \in DOMAIN logs |-> Done(logs[at])])
       IN /\ state' = reducer(state, Action("TOGGLE_HABIT",
                                             [date |-> Today, habitId |-> habitId]))
          /\ localDailyLogs' =
               UpsertedDailyLogs(rendered.localDailyLogs, Today, habitId, ~isCompleted)
          /\ storage' = SetItem(storage, "ht_dailyLogs", JSONStringify(localDailyLogs'))
          /\ StartRemoteUpsert(rendered.hasConfig)
          /\ hist' = [hist EXCEPT !.intents = @ + 1, !.toggles[habitId] = @ + 1,
                                  !.upsert = [kind |-> "daily", date |-> Today,
                                              habitId |-> habitId,
                                              completed |-> ~isCompleted,
                                              remote |-> rendered.hasConfig]]
    /\ UNCHANGED << rendered, config, localHabits, localMoodLogs, isLoading, error,
                    refetchTimers, loadingTimers, fetches >>

\* handleMoodChange(type, val), with updateMoodLog up to its await.
HandleMoodChange ==
  \E type \in {"mood", "motivation"}, val \in Scores :
    /\ hist.intents < MaxIntents
    /\ LET Hit(l) == l.date = Today
           moods == rendered.state.moodLogs
           idx == FindIndex([at \in DOMAIN moods |-> Hit(moods[at])])
           currentMood == IF idx > 0 THEN moods[idx]
                          ELSE [date |-> Today, moodScore |-> DefaultScore,
                                motivationScore |-> DefaultScore]
           newMood == IF type = "mood" THEN [currentMood EXCEPT !.moodScore = val]
                      ELSE [currentMood EXCEPT !.motivationScore = val]
       IN /\ state' = reducer(state, Action("UPDATE_MOOD", newMood))
          /\ localMoodLogs' =
               UpsertedMoodLogs(rendered.localMoodLogs, Today,
                                newMood.moodScore, newMood.motivationScore)
          /\ storage' = SetItem(storage, "ht_moodLogs", JSONStringify(localMoodLogs'))
          /\ StartRemoteUpsert(rendered.hasConfig)
          /\ hist' = [hist EXCEPT !.intents = @ + 1,
                                  !.lastMood = IF type = "mood" THEN {val} ELSE @,
                                  !.lastMotivation = IF type = "motivation" THEN {val} ELSE @,
                                  !.upsert = [kind |-> "mood", date |-> Today,
                                              moodScore |-> newMood.moodScore,
                                              motivationScore |-> newMood.motivationScore,
                                              remote |-> rendered.hasConfig]]
    /\ UNCHANGED << rendered, config, localHabits, localDailyLogs, isLoading, error,
                    refetchTimers, loadingTimers, fetches >>

\* handleConfigSave(newConfig): setConfig, then refetch of this render in 500 ms.
HandleConfigSave ==
  \E newConfig \in Configs :
    /\ hist.intents < MaxIntents
    /\ hist.saves < MaxSaves
    /\ config' = newConfig
    /\ storage' = SetItem(storage, "ht_config", JSONStringify(config'))
    /\ refetchTimers' = Append(refetchTimers, FetchClosure(rendered))
    /\ hist' = [hist EXCEPT !.intents = @ + 1, !.saves = @ + 1]
    /\ UNCHANGED << state, rendered, localHabits, localDailyLogs, localMoodLogs,
                    isLoading, isSyncing, error, loadingTimers, fetches, upserts >>

\* The refetch timer fires: fetchData up to its return (not configured) or up
\* to its await (configured).
RefetchFire ==
  /\ refetchTimers # << >>
  /\ LET c == Head(refetchTimers)
     IN /\ refetchTimers' = Tail(refetchTimers)
        /\ isLoading' = TRUE
        /\ error' = NULL
        /\ IF ~c.hasConfig
           THEN /\ loadingTimers' = loadingTimers + 1
                /\ hist' = [hist EXCEPT !.fetch = [path |-> "local", failed |-> FALSE,
                                                   data |-> FetchResult(c)]]
                /\ UNCHANGED fetches
           ELSE /\ fetches' = Append(fetches, c)
                /\ UNCHANGED << loadingTimers, hist >>
  /\ UNCHANGED << state, rendered, config, localHabits, localDailyLogs, localMoodLogs,
                  isSyncing, upserts, storage >>

\* setTimeout(() => setIsLoading(false), 500) of a fetchData that was not configured.
LoadingTimerFire ==
  /\ loadingTimers > 0
  /\ loadingTimers' = loadingTimers - 1
  /\ isLoading' = FALSE
  /\ UNCHANGED << hist, state, rendered, config, localHabits, localDailyLogs, localMoodLogs,
                  isSyncing, error, refetchTimers, fetches, upserts, storage >>

\* How the remote read of a configured fetchData may end. The read itself is
\* not implemented (the try block awaits a timer in its place); that it may
\* fail is the contract of the Sync Gateway.
RemoteReadFails == BOOLEAN

\* Mutant of FetchComplete: no finally block, so a failed remote read leaves
\* isLoading as it was.
FetchCompleteNoFinally ==
  \E failed \in RemoteReadFails :
    /\ fetches # << >>
    /\ fetches' = Tail(fetches)
    /\ error' = IF failed THEN "Error syncing" ELSE error
    /\ isLoading' = IF failed THEN isLoading ELSE FALSE
    /\ hist' = [hist EXCEPT !.fetch = [path |-> "remote", failed |-> failed,
                                       data |-> FetchResult(Head(fetches))]]
    /\ UNCHANGED << state, rendered, config, localHabits, localDailyLogs, localMoodLogs,
                    isSyncing, refetchTimers, loadingTimers, upserts, storage >>

\* The remote read of the oldest configured fetchData ends: the try block
\* returns, or the catch block sets the error; finally clears isLoading.
FetchComplete ==
  \E failed \in RemoteReadFails :
    /\ fetches # << >>
    /\ fetches' = Tail(fetches)
    /\ error' = IF failed THEN "Error syncing" ELSE error
    /\ isLoading' = FALSE
    /\ hist' = [hist EXCEPT !.fetch = [path |-> "remote", failed |-> failed,
                                       data |-> FetchResult(Head(fetches))]]
    /\ UNCHANGED << state, rendered, config, localHabits, localDailyLogs, localMoodLogs,
                    isSyncing, refetchTimers, loadingTimers, upserts, storage >>

\* Mutant of UpsertComplete: the end of the remote write puts back the
\* collections the last render saw (a rollback of the local write).
UpsertCompleteRollsBack ==
  /\ upserts > 0
  /\ upserts' = upserts - 1
  /\ isSyncing' = FALSE
  /\ localDailyLogs' = rendered.localDailyLogs
  /\ localMoodLogs' = rendered.localMoodLogs
  /\ UNCHANGED << hist, state, rendered, config, localHabits,
                  isLoading, error, refetchTimers, loadingTimers, fetches, storage >>

\* The await of a configured updateDailyLog / updateMoodLog ends: setIsSyncing(false).
UpsertComplete ==
  /\ upserts > 0
  /\ upserts' = upserts - 1
  /\ isSyncing' = FALSE
  /\ UNCHANGED << hist, state, rendered, config, localHabits, localDailyLogs, localMoodLogs,
                  isLoading, error, refetchTimers, loadingTimers, fetches, storage >>

\* App renders again and its effects run.
Render ==
  LET r == Snapshot(state, config, localHabits, localDailyLogs, localMoodLogs, isLoading)
  IN /\ rendered' = r
     /\ state' = RunEffects(state, r, rendered.isLoading)
     /\ UNCHANGED << hist, config, localHabits, localDailyLogs, localMoodLogs, isLoading,
                     isSyncing, error, refetchTimers, loadingTimers, fetches, upserts, storage >>

\* The application from a Log Store without logs.
InitApp ==
  /\ InitStored
  /\ localDailyLogs = << >>
  /\ localMoodLogs = << >>

NextApp ==
  \/ HandleToggleHabit
  \/ HandleMoodChange
  \/ HandleConfigSave
  \/ RefetchFire
  \/ LoadingTimerFire
  \/ FetchComplete
  \/ UpsertComplete
  \/ Render

SpecApp == InitApp /\ [][NextApp]_vars

\* The log intents and what follows them, from every stored collection, under
\* the configuration found at the start.
NextStored ==
  \/ HandleToggleHabit
  \/ HandleMoodChange
  \/ UpsertComplete
  \/ Render

SpecStored == InitStored /\ [][NextStored]_vars

\* --------------------------------------------------- the application's claims

\* The hook's data, as the next render will see it.
CurrentData == HookData(localHabits, localDailyLogs, localMoodLogs)

\* Every handler has run, App has rendered since, and its effects have run.
Settled ==
  /\ rendered = Snapshot(state, config, localHabits, localDailyLogs, localMoodLogs, isLoading)
  /\ state.dailyLogs = localDailyLogs
  /\ state.moodLogs = localMoodLogs

\* TodayView: isCompleted of a habit.
IsCompleted(logs, habitId) ==
  LET Done(l) == TodayKey(l, habitId) /\ l.completed IN Some([at \in DOMAIN logs |-> Done(logs[at])])

\* C3: after every upsertDailyLog the stored dailyLogs holds at most one record
\* with the key written, carrying the completed value written, also when the
\* collection held duplicates of the key before.
C3_UpsertCollapses ==
  hist.upsert.kind = "daily" =>
    LET stored == WithKey(localDailyLogs, hist.upsert)
    IN /\ Len(stored) <= 1
       /\ \A i \in 1..Len(stored) : stored[i].completed = hist.upsert.completed

\* C4: n toggleHabit intents of one habit and nothing else, from no record of
\* its key, however rapidly issued, end with completed iff n is odd once
\* everything has run.
C4_ToggleOrdering ==
  \A h \in HabitIds :
    (Settled /\ h \notin hist.base /\ hist.toggles[h] >= 1
             /\ hist.toggles[h] = hist.intents) =>
      (IsCompleted(state.dailyLogs, h) <=> hist.toggles[h] % 2 = 1)

\* The value last given for a score, or the default when none was given.
LastOr(given) == IF given = NoScore THEN DefaultScore ELSE CHOOSE v \in given : TRUE

\* The record of today after the setMood intents issued so far: each score the
\* last value given for it, or the default.
ExpectedMood ==
  [date |-> Today,
   moodScore |-> LastOr(hist.lastMood),
   motivationScore |-> LastOr(hist.lastMotivation)]

\* C5: after any sequence of setMood intents (from no record of today) exactly
\* one MoodLog of today exists in the reducer state and in the Log Store, each
\* score the most recent value given for it, 5 when never given.
C5_MoodWrites ==
  (~hist.moodBase /\ (hist.lastMood # NoScore \/ hist.lastMotivation # NoScore)) =>
    /\ OfDate(state.moodLogs, Today) = << ExpectedMood >>
    /\ OfDate(localMoodLogs, Today) = << ExpectedMood >>

\* A step that issued an upsert (toggleHabit or setMood).
UpsertIssued == hist'.intents > hist.intents /\ hist'.saves = hist.saves

\* The record of the last upsert is the first of its key in the Log Store.
UpsertStored(dailyLogs_, moodLogs_, upsert) ==
  IF upsert.kind = "daily"
  THEN LET Hit(l) == SameKey(l, upsert.date, upsert.habitId)
           i == FindIndex([at \in DOMAIN dailyLogs_ |-> Hit(dailyLogs_[at])])
       IN i > 0 /\ dailyLogs_[i].completed = upsert.completed
  ELSE LET Hit(l) == l.date = upsert.date
           i == FindIndex([at \in DOMAIN moodLogs_ |-> Hit(moodLogs_[at])])
       IN /\ i > 0
          /\ moodLogs_[i].moodScore = upsert.moodScore
          /\ moodLogs_[i].motivationScore = upsert.motivationScore

\* C7: an upsert stores its record in the handler's own step, configured or
\* not, and the end of a remote upsert never changes the stored collections.
C7_LocalFirst ==
  [][ /\ UpsertIssued => UpsertStored(localDailyLogs', localMoodLogs', hist'.upsert)
      /\ upserts' < upserts =>
           /\ localDailyLogs' = localDailyLogs
           /\ localMoodLogs' = localMoodLogs
           /\ localHabits' = localHabits ]_vars

C7_Witness ==
  /\ hist.intents >= 2
  /\ hist.upsert.kind = "daily"
  /\ hist.upsert.remote
  /\ upserts = 0
  /\ ~isSyncing
  /\ UpsertStored(localDailyLogs, localMoodLogs, hist.upsert)
  /\ localMoodLogs # << >>

\* C8: while a configured upsert is in flight isSyncing is true, and while a
\* configured fetch is in flight isLoading is true.
C8_BusyCovers ==
  /\ upserts > 0 => isSyncing
  /\ fetches # << >> => isLoading

\* C9: when the remote read of a configured fetchAll fails, the error is set,
\* the value returned is exactly the current local collections, which are
\* unchanged, and isLoading is cleared.
C9_FetchFallback ==
  [][ (Len(fetches') < Len(fetches) /\ hist'.fetch.failed /\ hasConfig(config)) =>
        /\ error' # NULL
        /\ hist'.fetch.data = CurrentData'
        /\ CurrentData' = CurrentData
        /\ isLoading' = FALSE ]_vars

\* C10: configured iff both fields are non-empty; a fetchAll called while the
\* gateway is not configured returns exactly the current local collections
\* without a remote read and leaves the error null, and an upsert issued
\* while it is not configured never sets isSyncing.
C10_Unconfigured ==
  [][ /\ hasConfig(config) <=> (config.spreadsheetId # "" /\ config.apiKey # "")
      /\ (Len(refetchTimers') < Len(refetchTimers) /\ ~hasConfig(config)) =>
           /\ fetches' = fetches
           /\ error' = NULL
           /\ hist'.fetch.path = "local"
           /\ hist'.fetch.data = CurrentData'
      /\ (UpsertIssued /\ ~hasConfig(config)) =>
           /\ upserts' = upserts
           /\ isSyncing' => isSyncing ]_vars

\* ------------------------------------------------------------ the Log Store

KeySet == { StorageKeys[i] : i \in 1..Len(StorageKeys) }

\* The texts a slot may hold: empty, malformed, or the text of a value.
StoredTexts(key) == {"", "{oops"} \cup { JSONStringify(v) : v \in JsonValues(key) }

\* Every storage: any of the four keys present, each with one of its texts.
Storages ==
  LET Choices == [KeySet -> UNION { StoredTexts(k) : k \in KeySet } \cup {NULL}]
      Slots == { f \in Choices : \A k \in KeySet : f[k] = NULL \/ f[k] \in StoredTexts(k) }
  IN { [k \in { k2 \in KeySet : f[k2] # NULL } |-> f[k]] : f \in Slots }

\* The in-memory value of a slot (storedValue of its useLocalStorage).
Slot(key) ==
  CASE key = "ht_config" -> config
    [] key = "ht_habits" -> localHabits
    [] key = "ht_dailyLogs" -> localDailyLogs
    [] OTHER -> localMoodLogs

\* The four slots with the slot of key at value.
SlotsWith(key, value) ==
  /\ config' = IF key = "ht_config" THEN value ELSE config
  /\ localHabits' = IF key = "ht_habits" THEN value ELSE localHabits
  /\ localDailyLogs' = IF key = "ht_dailyLogs" THEN value ELSE localDailyLogs
  /\ localMoodLogs' = IF key = "ht_moodLogs" THEN value ELSE localMoodLogs

\* hist of the Log Store: slots mounted so far, setter calls so far, the last
\* operation with its outcome.
InitStorage ==
  /\ storage \in Storages
  /\ config = initialValue("ht_config")
  /\ localHabits = initialValue("ht_habits")
  /\ localDailyLogs = initialValue("ht_dailyLogs")
  /\ localMoodLogs = initialValue("ht_moodLogs")
  /\ isLoading = FALSE
  /\ isSyncing = FALSE
  /\ error = NULL
  /\ refetchTimers = << >>
  /\ loadingTimers = 0
  /\ fetches = << >>
  /\ upserts = 0
  /\ state = initialState
  /\ rendered = Snapshot(initialState, emptyConfig, defaultHabits, << >>, << >>, FALSE)
  /\ hist = [loaded |-> 0, writes |-> 0, last |-> [op |-> "none"]]

\* The first render of App reaches the next useLocalStorage call: its
\* initializer runs.
Load ==
  \E readThrows \in BOOLEAN :
    /\ hist.loaded < Len(StorageKeys)
    /\ LET key == StorageKeys[hist.loaded + 1]
           loaded == LoadValue(storage, key, readThrows)
       IN /\ SlotsWith(key, loaded.value)
          /\ hist' = [hist EXCEPT !.loaded = @ + 1,
                                  !.last = [op |-> "load", key |-> key,
                                            readThrows |-> readThrows,
                                            raised |-> loaded.raised,
                                            logged |-> loaded.logged]]
    /\ UNCHANGED << storage, state, rendered, isLoading, isSyncing, error,
                    refetchTimers, loadingTimers, fetches, upserts >>

\* A setter of a mounted slot is called (setConfig, setLocalDailyLogs,
\* setLocalMoodLogs).
Save ==
  \E key \in {"ht_config", "ht_dailyLogs", "ht_moodLogs"}, writeThrows \in BOOLEAN :
    \E value \in JsonValues(key) :
      /\ hist.loaded = Len(StorageKeys)
      /\ hist.writes < MaxWrites
      /\ LET set == SetValue(storage, key, Slot(key), value, writeThrows)
         IN /\ SlotsWith(key, set.storedValue)
            /\ storage' = set.storage
            /\ hist' = [hist EXCEPT !.writes = @ + 1,
                                    !.last = [op |-> "save", key |-> key,
                                              value |-> value,
                                              writeThrows |-> writeThrows,
                                              raised |-> set.raised,
                                              logged |-> set.logged]]
      /\ UNCHANGED << state, rendered, isLoading, isSyncing, error,
                      refetchTimers, loadingTimers, fetches, upserts >>

NextStorage ==
  \/ Load
  \/ Save

SpecStorage == InitStorage /\ [][NextStorage]_vars

\* A step that ran the initializer of a slot / called a setter.
LoadStep == hist'.loaded > hist.loaded
SaveStep == hist'.writes > hist.writes

\* The in-memory value of a slot after the step.
SlotAfter(key) ==
  CASE key = "ht_config" -> config'
    [] key = "ht_habits" -> localHabits'
    [] key = "ht_dailyLogs" -> localDailyLogs'
    [] OTHER -> localMoodLogs'

\* The slots other than key keep their values.
OthersKept(key) == \A k \in KeySet \ {key} : SlotAfter(k) = Slot(k)

\* C11: load returns the default when the slot is absent, when its text
\* cannot be parsed or when reading storage throws, and the parsed stored value
\* otherwise; no error reaches the caller and the other slots are unaffected.
C11_LoadFallsBack ==
  [][ LoadStep =>
        LET key == StorageKeys[hist'.loaded]
            miss == \/ hist'.last.readThrows
                    \/ key \notin DOMAIN storage
                    \/ \A v \in JsonValues(key) : JSONStringify(v) # storage[key]
        IN /\ ~hist'.last.raised
           /\ miss => SlotAfter(key) = initialValue(key)
           /\ ~miss => JSONStringify(SlotAfter(key)) = storage[key]
           /\ OthersKept(key)
           /\ storage' = storage ]_vars

C11_Witness ==
  /\ hist.loaded = Len(StorageKeys)
  /\ hist.last.op = "load"
  /\ hist.last.readThrows
  /\ "ht_moodLogs" \in DOMAIN storage
  /\ storage["ht_moodLogs"] \notin {"", "{oops"}
  /\ localMoodLogs = << >>
  /\ "ht_dailyLogs" \in DOMAIN storage
  /\ Len(localDailyLogs) = 2
  /\ "ht_config" \in DOMAIN storage
  /\ storage["ht_config"] = "{oops"
  /\ config = emptyConfig
  /\ "ht_habits" \notin DOMAIN storage
  /\ localHabits = defaultHabits

\* C12: when the storage write of a save throws, no error reaches the caller,
\* the in-memory value of the slot is the new value, and the persisted slot
\* keeps its old content.
C12_BestEffortSave ==
  [][ (SaveStep /\ hist'.last.writeThrows) =>
        /\ ~hist'.last.raised
        /\ SlotAfter(hist'.last.key) = hist'.last.value
        /\ OthersKept(hist'.last.key)
        /\ storage' = storage ]_vars

C12_Witness ==
  /\ hist.last.op = "save"
  /\ hist.last.writeThrows
  /\ hist.last.key = "ht_dailyLogs"
  /\ localDailyLogs = hist.last.value
  /\ Len(localDailyLogs) = 1
  /\ "ht_dailyLogs" \in DOMAIN storage
  /\ storage["ht_dailyLogs"] = JSONStringify(<< >>)

\* ------------------------------------------------------------------- views

\* Numbers of the views are quotients of two counts: n / m with m > 0, kept
\* exact. (The source computes them as doubles; for counts of this size each
\* comparison below gives the result the double gives.)
Ratio(n, m) == [num |-> n, den |-> m]
Times(r, k) == [num |-> r.num * k, den |-> r.den]
GreaterEq(r, k) == r.num >= k * r.den
Greater(r, k) == r.num > k * r.den

\* dailyLogs.filter(l => l.date === iso && l.completed)
CompletedOn(logs, iso) ==
  LET Done(l) == l.date = iso /\ l.completed IN SelectSeq(logs, Done)

\* TodayView: completionRate
completionRate(state_) ==
  LET todayLogs == CompletedOn(state_.dailyLogs, Today)
  IN IF Len(state_.habits) = 0 THEN Ratio(0, 1)
     ELSE Times(Ratio(Len(todayLogs), Len(state_.habits)), 100)

\* CalendarView: getDayData, for the day whose ISO date is iso.
getDayData(state_, iso) ==
  LET logs == CompletedOn(state_.dailyLogs, iso)
  IN [iso |-> iso,
      rate |-> IF Len(state_.habits) > 0
               THEN Times(Ratio(Len(logs), Len(state_.habits)), 100)
               ELSE Ratio(0, 1)]

\* Mutant of bgColor: the boundary values fall in the lower band.
bgColorStrict(rate) ==
  IF Greater(rate, 80) THEN "success"
  ELSE IF Greater(rate, 40) THEN "warning"
  ELSE IF Greater(rate, 0) THEN "textTertiary"
  ELSE "bgTertiary"

\* CalendarView: the background colour of a cell.
bgColor(rate) ==
  IF GreaterEq(rate, 80) THEN "success"
  ELSE IF GreaterEq(rate, 40) THEN "warning"
  ELSE IF Greater(rate, 0) THEN "textTertiary"
  ELSE "bgTertiary"

\* Days the streak loop examines.
StreakDays == 365

\* StatsView: one iteration of the streak loop on the loop's variables; done
\* once the loop has left through break.
StreakStep(state_, i, loop) ==
  IF loop.done THEN loop
  ELSE LET dayLogs == CompletedOn(state_.dailyLogs, Today - i)
           dayRate == IF Len(state_.habits) > 0
                      THEN Ratio(Len(dayLogs), Len(state_.habits))
                      ELSE Ratio(0, 1)
       IN IF GreaterEq(dayRate, 1) THEN [loop EXCEPT !.streak = @ + 1]
          ELSE IF i > 0 THEN [loop EXCEPT !.done = TRUE]
          ELSE loop

\* The iterations lo..(hi - 1) of the streak loop, in order.
RECURSIVE StreakLoop(_, _, _, _)
StreakLoop(state_, lo, hi, loop) ==
  IF hi <= lo THEN loop
  ELSE IF hi = lo + 1 THEN StreakStep(state_, lo, loop)
  ELSE LET mid == (lo + hi) \div 2
           first == StreakLoop(state_, lo, mid, loop)
       IN IF first.done THEN first ELSE StreakLoop(state_, mid, hi, first)

\* StatsView: stats.streak
streak(state_) == StreakLoop(state_, 0, StreakDays, [streak |-> 0, done |-> FALSE]).streak

\* Ids of defaultHabits, and the catalog of its first m entries.
AllHabitIds == << "h1", "h2", "h3", "h4", "h5", "h6", "h7", "h8", "h9", "h10" >>
Catalog(m) == [i \in 1..m |-> [id |-> AllHabitIds[i], active |-> TRUE]]

\* The logs of the day d days back on which the habits of done were completed.
DayLogs(d, done) ==
  LET Rec(h) == << [date |-> Today - d, habitId |-> h, completed |-> TRUE] >>
  IN (IF "h1" \in done THEN Rec("h1") ELSE << >>) \o
     (IF "h2" \in done THEN Rec("h2") ELSE << >>)

\* The logs of the days d..MaxDaysBack back, done[d] completed on each.
RECURSIVE DaysLogs(_, _)
DaysLogs(done, d) ==
  IF d > MaxDaysBack THEN << >> ELSE DayLogs(d, done[d]) \o DaysLogs(done, d + 1)

\* Catalogs and dailyLogs the views are rendered over: every short collection
\* (duplicate keys and ids outside the catalog included), every choice of the
\* habits completed on each of the last days, the first n of m habits
\* completed today, and one habit completed on each of k days in a row.
ViewInputs ==
  { [habits |-> Catalog(m), dailyLogs |-> dl] :
      m \in 0..2, dl \in SeqUpTo(DailyLogs, MaxViewLogs) }
  \cup
  { [habits |-> Catalog(m), dailyLogs |-> DaysLogs(done, 0)] :
      m \in 1..2, done \in [0..MaxDaysBack -> SUBSET HabitIds] }
  \cup
  { [habits |-> Catalog(m),
     dailyLogs |-> [i \in 1..n |-> [date |-> Today, habitId |-> AllHabitIds[i],
                                    completed |-> TRUE]]] :
      m \in 1..Len(AllHabitIds), n \in 0..Len(AllHabitIds) }
  \cup
  { [habits |-> Catalog(1),
     dailyLogs |-> [i \in 1..k |-> [date |-> Today - (from + i - 1), habitId |-> "h1",
                                    completed |-> TRUE]]] :
      from \in 0..1, k \in (StreakDays - 1)..(StreakDays + 1) }

\* ISO dates of the calendar cells rendered.
CalendarDays == { Today - d : d \in 0..MaxDaysBack }

\* hist of the views: navigations so far and what the last view computed.
InitViews ==
  /\ \E in \in ViewInputs :
       /\ localHabits = in.habits
       /\ localDailyLogs = in.dailyLogs
  /\ localMoodLogs = << >>
  /\ config = emptyConfig
  /\ storage = StorageOf(config, localHabits, localDailyLogs, localMoodLogs)
  /\ isLoading = FALSE
  /\ isSyncing = FALSE
  /\ error = NULL
  /\ refetchTimers = << >>
  /\ loadingTimers = 0
  /\ fetches = << >>
  /\ upserts = 0
  /\ state = MountedState(localHabits, localDailyLogs, localMoodLogs)
  /\ rendered = Snapshot(state, config, localHabits, localDailyLogs, localMoodLogs, isLoading)
  /\ hist = [navs |-> 0, last |-> [view |-> "none"]]

\* Navigation: onViewChange dispatches SET_VIEW and App renders again.
Navigate ==
  \E v \in Views :
    /\ hist.navs < MaxNavs
    /\ state' = reducer(state, Action("SET_VIEW", v))
    /\ rendered' = Snapshot(state', config, localHabits, localDailyLogs, localMoodLogs,
                            isLoading)
    /\ hist' = [navs |-> hist.navs + 1, last |-> [view |-> "none"]]
    /\ UNCHANGED hookVarsButRendered

\* App renders TodayView.
RenderToday ==
  /\ rendered.state.currentView = "today"
  /\ hist' = [hist EXCEPT !.last = [view |-> "today",
                                    rate |-> completionRate(rendered.state)]]
  /\ UNCHANGED << state, hookVars >>

\* App renders CalendarView: one of its cells.
RenderCalendar ==
  \E iso \in CalendarDays :
    /\ rendered.state.currentView = "calendar"
    /\ LET day == getDayData(rendered.state, iso)
       IN hist' = [hist EXCEPT !.last = [view |-> "calendar", iso |-> iso,
                                         rate |-> day.rate,
                                         bgColor |-> bgColor(day.rate)]]
    /\ UNCHANGED << state, hookVars >>

\* App renders StatsView.
RenderStats ==
  /\ rendered.state.currentView = "stats"
  /\ hist' = [hist EXCEPT !.last = [view |-> "stats", streak |-> streak(rendered.state)]]
  /\ UNCHANGED << state, hookVars >>

NextViews ==
  \/ Navigate
  \/ RenderToday
  \/ RenderCalendar
  \/ RenderStats

SpecViews == InitViews /\ [][NextViews]_vars

\* C13: the completion rate of every date is a number in [0, 100], and 0 when
\* the catalog is empty, also with logs of habits outside the catalog or with
\* duplicate keys.
C13_RateInRange ==
  hist.last.view \in {"today", "calendar"} =>
    LET rate == hist.last.rate
    IN /\ rate.den > 0
       /\ rate.num >= 0
       /\ rate.num <= 100 * rate.den
       /\ Len(rendered.state.habits) = 0 => rate.num = 0

\* The rate of the day d days back is exactly 100%.
FullDay(d) ==
  /\ Len(rendered.state.habits) > 0
  /\ Len(CompletedOn(rendered.state.dailyLogs, Today - d)) = Len(rendered.state.habits)

\* The consecutive days immediately before today at exactly 100%, among the
\* days examined.
DaysBefore ==
  IF \A d \in 1..(StreakDays - 1) : FullDay(d) THEN StreakDays - 1
  ELSE (CHOOSE d \in 1..(StreakDays - 1) :
          ~FullDay(d) /\ \A e \in 1..(d - 1) : FullDay(e)) - 1

\* C14: the streak is 1 if today is at exactly 100% (else 0) plus the
\* consecutive days immediately before today at exactly 100%, over at most
\* 365 days including today; today below 100% does not stop the walk.
C14_Streak ==
  hist.last.view = "stats" =>
    hist.last.streak = (IF FullDay(0) THEN 1 ELSE 0) + DaysBefore

\* C15: the cell is 'full' (success) from 80, 'partial-high' (warning) from 40
\* to below 80, 'partial-low' (textTertiary) above 0 and below 40, 'empty'
\* (bgTertiary) at 0.
C15_Bands ==
  hist.last.view = "calendar" =>
    LET num == hist.last.rate.num
        den == hist.last.rate.den
        band == hist.last.bgColor
    IN /\ num >= 80 * den => band = "success"
       /\ (num >= 40 * den /\ num < 80 * den) => band = "warning"
       /\ (num > 0 /\ num < 40 * den) => band = "textTertiary"
       /\ num = 0 => band = "bgTertiary"

C15_Witness ==
  /\ hist.last.view = "calendar"
  /\ Len(rendered.state.habits) = 10
  /\ Len(CompletedOn(rendered.state.dailyLogs, hist.last.iso)) = 8
  /\ hist.last.bgColor = "success"

\* --------------------------------------------------- the reducer's frame

\* Fields of AppState whose value the last action changed.
ChangedFields == { f \in DOMAIN state : state[f] # hist.prev[f] }

\* C16: SetLoading, SetSyncing, SetError, SetView and SetMonth change only
\* their own field, to the payload; SetData sets the three collections to the
\* payload's and isLoading to false and leaves the rest; an unrecognised action
\* leaves the state unchanged.
C16_Frame ==
  hist.n = 1 =>
    LET type == hist.act.type
        payload == hist.act.payload
    IN /\ type = "SET_LOADING" =>
            ChangedFields \subseteq {"isLoading"} /\ state.isLoading = payload
       /\ type = "SET_SYNCING" =>
            ChangedFields \subseteq {"isSyncing"} /\ state.isSyncing = payload
       /\ type = "SET_ERROR" =>
            ChangedFields \subseteq {"error"} /\ state.error = payload
       /\ type = "SET_VIEW" =>
            ChangedFields \subseteq {"currentView"} /\ state.currentView = payload
       /\ type = "SET_MONTH" =>
            ChangedFields \subseteq {"currentMonth"} /\ state.currentMonth = payload
       /\ type = "SET_DATA" =>
            /\ ChangedFields \subseteq {"habits", "dailyLogs", "moodLogs", "isLoading"}
            /\ state.habits = payload.habits
            /\ state.dailyLogs = payload.dailyLogs
            /\ state.moodLogs = payload.moodLogs
            /\ state.isLoading = FALSE
       /\ type = "UNKNOWN" => state = hist.prev

C16_Witness ==
  /\ hist.n = 1
  /\ hist.act.type = "SET_DATA"
  /\ hist.prev.isLoading
  /\ ~state.isLoading
  /\ state.dailyLogs # hist.prev.dailyLogs
  /\ state.dailyLogs = hist.act.payload.dailyLogs
  /\ ChangedFields = {"habits", "dailyLogs", "moodLogs", "isLoading"}

\* ------------------------------------------- the application: more properties

\* C17: toggleHabit(h1) then toggleHabit(h2) from a Log Store without a record
\* of either key leave a completed record of both in the Log Store and, after
\* the following SetData, in the reducer state, with or without a render
\* between the two intents.
C17_NoLostWrite ==
  (/\ hist.intents = 2
   /\ \A h \in HabitIds : hist.toggles[h] = 1 /\ h \notin hist.base) =>
    /\ \A h \in HabitIds : IsCompleted(localDailyLogs, h)
    /\ Settled => \A h \in HabitIds : IsCompleted(state.dailyLogs, h)

\* A step of handleToggleHabit.
ToggleStep == \E h \in HabitIds : hist'.toggles[h] > hist.toggles[h]

\* C18: the completed value a toggleHabit intent passes to upsertDailyLog is
\* the value the reducer's ToggleHabit stores for the key, so the reducer state
\* and the Log Store agree on the key right after the intent, also when the
\* collection holds duplicates of the key with conflicting values.
C18_OptimisticAgrees ==
  [][ ToggleStep =>
        LET h == hist'.upsert.habitId
            Hit(l) == TodayKey(l, h)
            inState == SelectSeq(state'.dailyLogs, Hit)
            inStore == SelectSeq(localDailyLogs', Hit)
        IN /\ Len(inState) = 1
           /\ inState[1].completed = hist'.upsert.completed
           /\ Len(inStore) >= 1
           /\ inStore[1].completed = inState[1].completed ]_vars

\* ------------------------------------------------------------- busy flags
\* The application under fair scheduling: a timer that is due fires and the
\* continuation of a settled promise runs.
FairTimers ==
  /\ WF_vars(RefetchFire)
  /\ WF_vars(LoadingTimerFire)
  /\ WF_vars(FetchComplete)
  /\ WF_vars(UpsertComplete)

\* The application with at most MaxBusyIntents user intents.
BusyIntent == hist.intents < MaxBusyIntents

NextBusy ==
  \/ BusyIntent /\ HandleToggleHabit
  \/ BusyIntent /\ HandleMoodChange
  \/ BusyIntent /\ HandleConfigSave
  \/ RefetchFire
  \/ LoadingTimerFire
  \/ FetchComplete
  \/ UpsertComplete
  \/ Render

SpecBusy == InitApp /\ [][NextBusy]_vars /\ FairTimers

\* No timer is pending and no remote operation is in flight.
Quiet ==
  /\ refetchTimers = << >>
  /\ loadingTimers = 0
  /\ fetches = << >>
  /\ upserts = 0

\* C19: under fair scheduling of timers and promise continuations, isLoading
\* set by a fetchData becomes false again, isSyncing set by a configured upsert
\* becomes false again, and with finitely many operations started both flags
\* are eventually false for good.
C19_FlagsClear ==
  /\ isLoading ~> ~isLoading
  /\ isSyncing ~> ~isSyncing
  /\ <>[](~isLoading /\ ~isSyncing)

C19_Witness ==
  /\ Quiet
  /\ hist.fetch.path = "remote"
  /\ hist.fetch.failed
  /\ hist.upsert # NoUpsert
  /\ ~isLoading
  /\ ~isSyncing

\* ------------------------------------- store-to-reducer synchronisation
\* The reducer builds a new state object in every case but default, which
\* returns the object it was given; React renders again after a dispatch
\* unless the state object is the same one.
ReturnsNewState(type) ==
  type \in {"SET_LOADING", "SET_SYNCING", "SET_ERROR", "SET_DATA", "SET_VIEW",
            "SET_MONTH", "TOGGLE_HABIT", "UPDATE_MOOD"}

\* The dependency of the SET_DATA effect is the hook's data, an object literal
\* evaluated in every render: it differs from the previous render's by
\* identity, whatever it holds.
DataChanged == TRUE

\* App right after its first render over the stored values, its effects still
\* to run. hist holds what React keeps between renders: whether a render is
\* due, whether the effects of the last render are due, and the isLoading
\* dependency of the last run of the SET_LOADING effect (none before the first).
InitSync ==
  /\ config \in {emptyConfig, fullConfig}
  /\ localHabits = defaultHabits
  /\ \E dl \in StoredLogs, ml \in StoredMoods :
       /\ dl = << >> \/ ml = << >>
       /\ localDailyLogs = dl
       /\ localMoodLogs = ml
  /\ storage = StorageOf(config, localHabits, localDailyLogs, localMoodLogs)
  /\ isLoading = FALSE
  /\ isSyncing = FALSE
  /\ error = NULL
  /\ refetchTimers = << >>
  /\ loadingTimers = 0
  /\ fetches = << >>
  /\ upserts = 0
  /\ state = initialState
  /\ rendered = Snapshot(state, config, localHabits, localDailyLogs, localMoodLogs, isLoading)
  /\ hist = [renderDue |-> FALSE, effectsDue |-> TRUE, loadingDep |-> {}]

\* The isLoading of the last render is not the one the SET_LOADING effect last
\* ran with.
LoadingChanged == rendered.isLoading \notin hist.loadingDep

\* The effects of the last render run: SET_DATA when its dependency changed,
\* SET_LOADING when isLoading did; a new state object makes a render due.
EffectsSync ==
  /\ hist.effectsDue
  /\ state' = RunEffects(state, rendered,
                         IF LoadingChanged THEN ~rendered.isLoading ELSE rendered.isLoading)
  /\ hist' = [renderDue |-> \/ DataChanged /\ ReturnsNewState("SET_DATA")
                            \/ LoadingChanged /\ ReturnsNewState("SET_LOADING"),
              effectsDue |-> FALSE,
              loadingDep |-> {rendered.isLoading}]
  /\ UNCHANGED << rendered, hookVarsButRendered >>

\* React renders App over the current state and the hook's values; the
\* effects whose dependencies changed become due.
RenderSync ==
  /\ hist.renderDue
  /\ rendered' = Snapshot(state, config, localHabits, localDailyLogs, localMoodLogs, isLoading)
  /\ hist' = [hist EXCEPT !.renderDue = FALSE,
                          !.effectsDue = DataChanged \/ isLoading \notin hist.loadingDep]
  /\ UNCHANGED << state, hookVarsButRendered >>

NextSync ==
  \/ EffectsSync
  \/ RenderSync

\* React runs a render that is due and the effects that are due.
SpecSync == InitSync /\ [][NextSync]_vars /\ WF_vars(EffectsSync) /\ WF_vars(RenderSync)

\* A step that dispatches SET_DATA.
SetDataStep == hist.effectsDue /\ ~hist'.effectsDue /\ DataChanged

\* C20: with no user intent and no change of the stored collections, only
\* finitely many SET_DATA actions are dispatched: from some point on no step
\* dispatches one.
C20_Quiescence == <>[][~SetDataStep]_vars

=============================================================================
